---- MODULE Spec2Model ----
(***************************************************************************)
(* Model of iptime_wol_gui.py: the Wake-on-LAN magic packet sender         *)
(* (normalize_mac, send_magic_packet_advanced, App._run_task) and the      *)
(* wake-check poll (ping_once, App._do_ping).                              *)
(*                                                                         *)
(* A Python str is a sequence of one-character strings; bytes is a         *)
(* sequence of integers 0..255.  Every worker thread (threading.Thread in  *)
(* on_run and _do_ping) owns one entry of th, its local variables, one     *)
(* entry of net, what the operating system saw that thread do, and one     *)
(* entry of req, the input the thread was started with.                    *)
(***************************************************************************)
EXTENDS Integers, Sequences, FiniteSets

VARIABLES th, net, req

vars == <<th, net, req>>

----------------------------------------------------------------------------
(* Bounds of the model *)

\* worker threads that may exist at the same time
NWorkers == 2

\* hardware addresses 0..MaxMacSeed are drawn as inputs (see SampleMac)
MaxMacSeed == 1

Workers == 1..NWorkers

----------------------------------------------------------------------------
(* Python str and bytes helpers *)

HexUpper == <<"0","1","2","3","4","5","6","7","8","9","A","B","C","D","E","F">>

HexLower == <<"0","1","2","3","4","5","6","7","8","9","a","b","c","d","e","f">>

Digits == <<"0","1","2","3","4","5","6","7","8","9">>

Range(s) == {s[k] : k \in 1..Len(s)}

\* str.upper() on one character of the input alphabet
UpperChar(c) ==
    CASE c = "a" -> "A" [] c = "b" -> "B" [] c = "c" -> "C" [] c = "d" -> "D"
      [] c = "e" -> "E" [] c = "f" -> "F" [] c = "g" -> "G" [] c = "x" -> "X"
      [] OTHER -> c

\* str.upper()
Upper(s) == [k \in 1..Len(s) |-> UpperChar(s[k])]

\* str.replace(old, new) for a one-character old and a one-character new
ReplaceChar(s, old, new) == [k \in 1..Len(s) |-> IF s[k] = old THEN new ELSE s[k]]

\* str.replace(old, "") for a one-character old
RECURSIVE RemoveChar(_, _)
RemoveChar(s, old) ==
    IF s = <<>> THEN <<>>
    ELSE IF Head(s) = old THEN RemoveChar(Tail(s), old)
         ELSE <<Head(s)>> \o RemoveChar(Tail(s), old)

IsSpace(c) == c = " "

RECURSIVE LStrip(_)
LStrip(s) == IF s # <<>> /\ IsSpace(Head(s)) THEN LStrip(Tail(s)) ELSE s

RECURSIVE RStrip(_)
RStrip(s) ==
    IF s # <<>> /\ IsSpace(s[Len(s)]) THEN RStrip(SubSeq(s, 1, Len(s) - 1)) ELSE s

\* str.strip()
Strip(s) == RStrip(LStrip(s))

\* the value of a hexadecimal digit character (upper case), -1 for any other
HexVal(c) ==
    IF \E k \in 1..16 : HexUpper[k] = c
    THEN (CHOOSE k \in 1..16 : HexUpper[k] = c) - 1
    ELSE -1

\* the value of a decimal digit character, -1 for any other
DigitVal(c) ==
    IF \E k \in 1..10 : Digits[k] = c
    THEN (CHOOSE k \in 1..10 : Digits[k] = c) - 1
    ELSE -1

\* bytes.fromhex on an even-length string of hexadecimal digits
FromHex(s) == [k \in 1..(Len(s) \div 2) |-> 16 * HexVal(s[2 * k - 1]) + HexVal(s[2 * k])]

\* b * n for bytes b
RECURSIVE Repeat(_, _)
Repeat(b, n) == IF n = 0 THEN <<>> ELSE b \o Repeat(b, n - 1)

----------------------------------------------------------------------------
(* The program's constants *)

DEFAULT_PORTS == <<7, 9>>

\* range(3): sends per port
SendsPerPort == 3

\* range(10): probes per wake check
MaxAttempts == 10

\* the length the validated address must have
MacHexLen == 12

\* the repetitions of the address in the packet
MacRepeat == 16

\* the length of the 0xFF header
HeaderLen == 6

----------------------------------------------------------------------------
(* normalize_mac *)

IsHexUpper(c) == HexVal(c) >= 0

\* re.fullmatch(r"([0-9A-F]{2}:){5}[0-9A-F]{2}", mac)
MatchesMacPattern(mac) ==
    /\ Len(mac) = 17
    /\ \A k \in 1..17 : IF k % 3 = 0 THEN mac[k] = ":" ELSE IsHexUpper(mac[k])

\* normalize_mac: the canonical string, or ValueError
normalize_mac(mac_str) ==
    LET mac == ReplaceChar(Upper(Strip(mac_str)), "-", ":")
    IN  IF MatchesMacPattern(mac)
        THEN [ok |-> TRUE, val |-> mac]
        ELSE [ok |-> FALSE, val |-> <<>>]

----------------------------------------------------------------------------
(* send_magic_packet_advanced: pure parts *)

RECURSIVE DecimalValue(_, _)
DecimalValue(s, acc) ==
    IF s = <<>> THEN acc ELSE DecimalValue(Tail(s), 10 * acc + DigitVal(Head(s)))

\* int(text): surrounding whitespace, an optional sign, then decimal digits;
\* anything else is ValueError
ParseInt(text) ==
    LET t    == Strip(text)
        sgn  == IF t # <<>> /\ Head(t) \in {"+", "-"} THEN Head(t) ELSE ""
        body == IF sgn = "" THEN t ELSE Tail(t)
    IN  IF body # <<>> /\ \A k \in 1..Len(body) : DigitVal(body[k]) >= 0
        THEN [ok |-> TRUE,
              val |-> IF sgn = "-" THEN 0 - DecimalValue(body, 0) ELSE DecimalValue(body, 0)]
        ELSE [ok |-> FALSE, val |-> 0]

\* a bug: the supplied port is added to the default ports
ParsePortsKeepsDefaults(port_input) ==
    IF Strip(port_input) = <<>>
    THEN [ok |-> TRUE, ports |-> DEFAULT_PORTS]
    ELSE LET p == ParseInt(Strip(port_input))
         IN  IF p.ok THEN [ok |-> TRUE, ports |-> DEFAULT_PORTS \o <<p.val>>]
             ELSE [ok |-> FALSE, ports |-> <<>>]

\* the port list a port specification selects, or ValueError
ParsePorts(port_input) ==
    IF Strip(port_input) = <<>>
    THEN [ok |-> TRUE, ports |-> DEFAULT_PORTS]
    ELSE LET p == ParseInt(Strip(port_input))
         IN  IF p.ok THEN [ok |-> TRUE, ports |-> <<p.val>>]
             ELSE [ok |-> FALSE, ports |-> <<>>]

\* mac.replace(":", "").replace("-", "").upper()
CleanMac(mac) == Upper(RemoveChar(RemoveChar(mac, ":"), "-"))

\* a bug: the length of the address is not checked
MacCleanValidCharsOnly(mac_clean) ==
    \A k \in 1..Len(mac_clean) : IsHexUpper(mac_clean[k])

\* len(mac_clean) != 12 or not all(c in "0123456789ABCDEF" ...) raises
MacCleanValid(mac_clean) ==
    /\ Len(mac_clean) = MacHexLen
    /\ \A k \in 1..Len(mac_clean) : IsHexUpper(mac_clean[k])

\* a bug: one repetition of the address is missing
BuildMagicPacketShort(mac_clean) ==
    Repeat(<<255>>, HeaderLen) \o Repeat(FromHex(mac_clean), MacRepeat - 1)

\* b"\xff" * 6 + bytes.fromhex(mac_clean) * 16
BuildMagicPacket(mac_clean) ==
    Repeat(<<255>>, HeaderLen) \o Repeat(FromHex(mac_clean), MacRepeat)

----------------------------------------------------------------------------
(* Inputs: what the user typed into the MAC and port fields *)

\* six octets of a sample hardware address
SampleMac(seed) == [j \in 1..6 |-> (seed * 37 + (j - 1) * 51) % 256]

HexPair(octet, lower) ==
    IF lower THEN <<HexLower[(octet \div 16) + 1], HexLower[(octet % 16) + 1]>>
    ELSE <<HexUpper[(octet \div 16) + 1], HexUpper[(octet % 16) + 1]>>

MacForms == {"colon", "hyphen", "none", "mixed"}

\* the separator written after octet j (j < 6)
Separator(form, j) ==
    CASE form = "colon"  -> <<":">>
      [] form = "hyphen" -> <<"-">>
      [] form = "mixed"  -> IF j % 2 = 1 THEN <<":">> ELSE <<"-">>
      [] OTHER           -> <<>>

RECURSIVE RenderFrom(_, _, _, _)
RenderFrom(octets, form, lower, j) ==
    IF j = 6 THEN HexPair(octets[6], lower)
    ELSE HexPair(octets[j], lower) \o Separator(form, j) \o RenderFrom(octets, form, lower, j + 1)

\* the address written in one separator form and letter case
RenderMac(octets, form, lower) == RenderFrom(octets, form, lower, 1)

MacDefects == {"none", "padded", "short", "long", "badchar", "empty"}

\* a written address, possibly damaged
Damage(s, defect) ==
    CASE defect = "padded"  -> <<" ">> \o s \o <<" ">>
      [] defect = "short"   -> SubSeq(s, 1, Len(s) - 1)
      [] defect = "long"    -> s \o <<"0">>
      [] defect = "badchar" -> <<"g">> \o Tail(s)
      [] defect = "empty"   -> <<>>
      [] OTHER              -> s

MacInputs ==
    [seed : 0..MaxMacSeed, form : MacForms, lower : BOOLEAN, defect : MacDefects]

MacString(d) == Damage(RenderMac(SampleMac(d.seed), d.form, d.lower), d.defect)

\* what may stand in the port field, as typed
PortInputs ==
    { <<>>, <<" ">>, <<"7">>, <<" ", "9", " ">>, <<"+", "9">>, <<"0">>,
      <<"-", "1">>, <<"6", "5", "5", "3", "5">>, <<"6", "5", "5", "3", "6">>,
      <<"9", "x">>, <<"7", ",", "9">>, <<"x">> }

----------------------------------------------------------------------------
(* State *)

\* the locals of a thread that has not started
IdleLocals ==
    [pc |-> "idle", mac |-> <<>>, port_input |-> <<>>, ports |-> <<>>,
     magic_packet |-> <<>>, success_count |-> 0, results |-> <<>>,
     port_idx |-> 0, i |-> 0, sent_count |-> 0, ok |-> FALSE,
     raised |-> "", ret_success |-> FALSE, report |-> ""]

\* what the operating system has seen of a thread that has not started
\* socks: the port indexes whose socket is open; opened: the port index of
\* every socket ever created; sock_errors: the port index of every socket
\* whose creation or configuration raised; calls: the (port index, port, data)
\* of every sendto call; full: the port index of every sendto that wrote the
\* whole packet; probes: the result of every ping_once call
IdleNet ==
    [socks |-> {}, opened |-> <<>>, sock_errors |-> <<>>, calls |-> <<>>,
     full |-> <<>>, probes |-> <<>>]

\* the input of a thread that has not started; src describes how var_mac
\* was written
IdleReq == [op |-> "", var_mac |-> <<>>, var_port |-> <<>>, src |-> <<>>]

Init ==
    /\ th = [w \in Workers |-> IdleLocals]
    /\ net = [w \in Workers |-> IdleNet]
    /\ req = [w \in Workers |-> IdleReq]

SetLocals(w, r) == th' = [th EXCEPT ![w] = r]

SetNet(w, r) == net' = [net EXCEPT ![w] = r]

SetReq(w, r) == req' = [req EXCEPT ![w] = r]

----------------------------------------------------------------------------
(* App.on_run / App._run_task, and a direct call of send_magic_packet_advanced *)

\* on_run starts _run_task in a new thread; it reads the MAC and port fields
on_run(w, d, p) ==
    /\ th[w].pc = "idle"
    /\ SetLocals(w, [th[w] EXCEPT !.pc = "normalize"])
    /\ SetReq(w, [op |-> "run_task", var_mac |-> MacString(d), var_port |-> p,
                   src |-> <<d>>])
    /\ UNCHANGED net

\* _run_task: mac = normalize_mac(self.var_mac.get()), port_input stripped;
\* a ValueError goes to the except clause, which reports the failure
RunTaskNormalize(w) ==
    /\ th[w].pc = "normalize"
    /\ LET n == normalize_mac(req[w].var_mac)
       IN  IF n.ok
           THEN SetLocals(w, [th[w] EXCEPT !.pc = "parse_port", !.mac = n.val,
                                           !.port_input = Strip(req[w].var_port)])
           ELSE SetLocals(w, [th[w] EXCEPT !.pc = "done", !.raised = "InvalidMacFormat",
                                           !.report = "failed"])
    /\ UNCHANGED <<net, req>>

\* send_magic_packet_advanced(mac, host, port_input) called with raw strings
CallSend(w, d, p) ==
    /\ th[w].pc = "idle"
    /\ SetLocals(w, [th[w] EXCEPT !.pc = "parse_port", !.mac = MacString(d),
                                  !.port_input = p])
    /\ SetReq(w, [op |-> "send", var_mac |-> MacString(d), var_port |-> p,
                   src |-> <<d>>])
    /\ UNCHANGED net

\* where an exception or the return value of send_magic_packet_advanced goes
AfterSend(w) == IF req[w].op = "run_task" THEN "report" ELSE "done"

\* lines 54-62: the port specification
SendParsePort(w) ==
    /\ th[w].pc = "parse_port"
    /\ LET p == ParsePorts(th[w].port_input)
       IN  IF p.ok
           THEN SetLocals(w, [th[w] EXCEPT !.pc = "check_mac", !.ports = p.ports])
           ELSE SetLocals(w, [th[w] EXCEPT !.pc = AfterSend(w), !.raised = "InvalidPort"])
    /\ UNCHANGED <<net, req>>

\* lines 64-74: the address check, the packet, the counters
SendCheckMac(w) ==
    /\ th[w].pc = "check_mac"
    /\ LET mac_clean == CleanMac(th[w].mac)
       IN  IF MacCleanValid(mac_clean)
           THEN SetLocals(w, [th[w] EXCEPT !.pc = "for_port",
                                           !.magic_packet = BuildMagicPacket(mac_clean),
                                           !.success_count = 0, !.results = <<>>,
                                           !.port_idx = 1])
           ELSE SetLocals(w, [th[w] EXCEPT !.pc = AfterSend(w), !.raised = "InvalidAddress"])
    /\ UNCHANGED <<net, req>>

----------------------------------------------------------------------------
(* send_magic_packet_advanced: the loop over the ports, lines 76-104 *)

\* sendto takes a port in 0..65535 and raises OverflowError for any other
SendtoTakesPort(port) == port >= 0 /\ port <= 65535

\* what sock.sendto(magic_packet, (host, port)) can do: write the whole packet,
\* write less, or raise; a port outside 0..65535 always raises
SendOutcomes(port) ==
    IF SendtoTakesPort(port) THEN {"full", "short", "raise"} ELSE {"raise"}

\* lines 86-90: sent_count after one sendto
SentCountAfter(sent_count, outcome) ==
    IF outcome = "full" THEN sent_count + 1 ELSE sent_count

\* a bug: the socket is not closed
LeakSocket(socks, idx) == socks

\* the with statement's exit: the socket of port index idx is closed
CloseSocket(socks, idx) == socks \ {idx}

\* a bug: the flag asks for more than one port
AggregateSuccessAll(success_count) == success_count > 1

\* line 104: the aggregate flag
AggregateSuccess(success_count) == success_count > 0

\* lines 93-97: the result string of a port whose sends ran
PortResult(port, sent_count) ==
    IF sent_count > 0
    THEN [port |-> port, kind |-> "success", sent |-> sent_count]
    ELSE [port |-> port, kind |-> "failed", sent |-> 0]

\* line 100: the result string of a port whose socket raised
PortError(port) == [port |-> port, kind |-> "error", sent |-> 0]

\* line 78: socket.socket(...) for the next port; it may raise
OpenSocket(w, outcome) ==
    /\ th[w].pc = "for_port"
    /\ th[w].port_idx <= Len(th[w].ports)
    /\ LET idx  == th[w].port_idx
           port == th[w].ports[idx]
       IN  IF outcome = "ok"
           THEN /\ SetLocals(w, [th[w] EXCEPT !.pc = "setup"])
                /\ SetNet(w, [net[w] EXCEPT !.socks = @ \cup {idx},
                                            !.opened = Append(@, idx)])
           ELSE /\ SetLocals(w, [th[w] EXCEPT !.pc = "next_port",
                                             !.results = Append(@, PortError(port))])
                /\ SetNet(w, [net[w] EXCEPT !.sock_errors = Append(@, idx)])
    /\ UNCHANGED req

\* lines 79-83: settimeout and setsockopt; if one raises the with statement
\* closes the socket and line 100 records the error
ConfigureSocket(w, outcome) ==
    /\ th[w].pc = "setup"
    /\ LET idx  == th[w].port_idx
           port == th[w].ports[idx]
       IN  IF outcome = "ok"
           THEN /\ SetLocals(w, [th[w] EXCEPT !.pc = "send", !.sent_count = 0, !.i = 0])
                /\ UNCHANGED net
           ELSE /\ SetLocals(w, [th[w] EXCEPT !.pc = "next_port",
                                             !.results = Append(@, PortError(port))])
                /\ SetNet(w, [net[w] EXCEPT !.socks = CloseSocket(@, idx),
                                            !.sock_errors = Append(@, idx)])
    /\ UNCHANGED req

\* a bug: an exception of sendto ends the port's loop
SendAttemptAborts(w, outcome) ==
    /\ th[w].pc = "send"
    /\ th[w].i < SendsPerPort
    /\ LET idx  == th[w].port_idx
           port == th[w].ports[idx]
       IN  /\ outcome \in SendOutcomes(port)
           /\ SetLocals(w, [th[w] EXCEPT
                  !.sent_count = SentCountAfter(@, outcome),
                  !.i = IF outcome = "raise" THEN SendsPerPort ELSE @ + 1])
           /\ SetNet(w, [net[w] EXCEPT
                  !.calls = Append(@, [idx |-> idx, port |-> port,
                                       data |-> th[w].magic_packet]),
                  !.full = IF outcome = "full" THEN Append(@, idx) ELSE @])
    /\ UNCHANGED req

\* a bug: sent_count is one variable of the module, shared by every thread
SendAttemptSharedCounter(w, outcome) ==
    /\ th[w].pc = "send"
    /\ th[w].i < SendsPerPort
    /\ LET idx  == th[w].port_idx
           port == th[w].ports[idx]
           cnt  == SentCountAfter(th[w].sent_count, outcome)
       IN  /\ outcome \in SendOutcomes(port)
           /\ th' = [v \in Workers |->
                        IF v = w THEN [th[v] EXCEPT !.sent_count = cnt, !.i = @ + 1]
                        ELSE [th[v] EXCEPT !.sent_count = cnt]]
           /\ SetNet(w, [net[w] EXCEPT
                  !.calls = Append(@, [idx |-> idx, port |-> port,
                                       data |-> th[w].magic_packet]),
                  !.full = IF outcome = "full" THEN Append(@, idx) ELSE @])
    /\ UNCHANGED req

\* lines 84-91: one pass of for i in range(3)
SendAttempt(w, outcome) ==
    /\ th[w].pc = "send"
    /\ th[w].i < SendsPerPort
    /\ LET idx  == th[w].port_idx
           port == th[w].ports[idx]
       IN  /\ outcome \in SendOutcomes(port)
           /\ SetLocals(w, [th[w] EXCEPT !.sent_count = SentCountAfter(@, outcome),
                                         !.i = @ + 1])
           /\ SetNet(w, [net[w] EXCEPT
                  !.calls = Append(@, [idx |-> idx, port |-> port,
                                       data |-> th[w].magic_packet]),
                  !.full = IF outcome = "full" THEN Append(@, idx) ELSE @])
    /\ UNCHANGED req

\* lines 93-97 and the exit of the with statement
FinishPort(w) ==
    /\ th[w].pc = "send"
    /\ th[w].i = SendsPerPort
    /\ LET idx  == th[w].port_idx
           port == th[w].ports[idx]
       IN  /\ SetLocals(w, [th[w] EXCEPT
                  !.pc = "next_port",
                  !.success_count = IF th[w].sent_count > 0 THEN @ + 1 ELSE @,
                  !.results = Append(@, PortResult(port, th[w].sent_count))])
           /\ SetNet(w, [net[w] EXCEPT !.socks = CloseSocket(@, idx)])
    /\ UNCHANGED req

\* line 102: time.sleep(0.3), then the next port
NextPort(w) ==
    /\ th[w].pc = "next_port"
    /\ SetLocals(w, [th[w] EXCEPT !.pc = "for_port", !.port_idx = @ + 1])
    /\ UNCHANGED <<net, req>>

\* line 104: return success_count > 0, results
SendReturn(w) ==
    /\ th[w].pc = "for_port"
    /\ th[w].port_idx > Len(th[w].ports)
    /\ SetLocals(w, [th[w] EXCEPT !.pc = AfterSend(w),
                                  !.ret_success = AggregateSuccess(th[w].success_count)])
    /\ UNCHANGED <<net, req>>

\* _run_task, lines 228-248: success is reported, or RuntimeError is raised and
\* the except clause reports the failure (as it does for a ValueError)
RunTaskReport(w) ==
    /\ th[w].pc = "report"
    /\ IF th[w].raised # ""
       THEN SetLocals(w, [th[w] EXCEPT !.pc = "done", !.report = "failed"])
       ELSE IF th[w].ret_success
            THEN SetLocals(w, [th[w] EXCEPT !.pc = "done", !.report = "success"])
            ELSE SetLocals(w, [th[w] EXCEPT !.pc = "done", !.raised = "RuntimeError",
                                            !.report = "failed"])
    /\ UNCHANGED <<net, req>>

----------------------------------------------------------------------------
(* ping_once and App._do_ping *)

\* what subprocess.run(ping ...) can do: exit 0, exit non-zero, or raise
ProbeOutcomes == {"zero", "nonzero", "raise"}

\* ping_once: True iff the ping process exited 0
ping_once(outcome) == outcome = "zero"

\* a bug: the break is missing
NeverBreaks(reachable) == FALSE

\* lines 262-264: if ping_once(...): ok = True; break
BreaksLoop(reachable) == reachable

\* on_check / PingDialog._ok / _do_ping: the poll starts in a new thread
on_check(w) ==
    /\ th[w].pc = "idle"
    /\ SetLocals(w, [th[w] EXCEPT !.pc = "ping", !.ok = FALSE, !.i = 0])
    /\ SetReq(w, [req[w] EXCEPT !.op = "check"])
    /\ UNCHANGED net

\* lines 259-265: one pass of for i in range(10)
Probe(w, outcome) ==
    /\ th[w].pc = "ping"
    /\ th[w].i < MaxAttempts
    /\ LET reachable == ping_once(outcome)
       IN  /\ SetLocals(w, [th[w] EXCEPT
                  !.ok = IF reachable THEN TRUE ELSE @,
                  !.i = IF BreaksLoop(reachable) THEN @ ELSE @ + 1,
                  !.pc = IF BreaksLoop(reachable) \/ th[w].i + 1 = MaxAttempts
                         THEN "ping_report" ELSE "ping"])
           /\ SetNet(w, [net[w] EXCEPT !.probes = Append(@, reachable)])
    /\ UNCHANGED req

\* lines 266-273: the outcome of the poll
PingReport(w) ==
    /\ th[w].pc = "ping_report"
    /\ SetLocals(w, [th[w] EXCEPT !.pc = "done",
                                  !.report = IF th[w].ok THEN "reachable" ELSE "unreachable"])
    /\ UNCHANGED <<net, req>>

----------------------------------------------------------------------------
(* Specifications *)

\* one step of a started thread
Step(w) ==
    \/ RunTaskNormalize(w)
    \/ SendParsePort(w)
    \/ SendCheckMac(w)
    \/ \E outcome \in {"ok", "raise"} : OpenSocket(w, outcome)
    \/ \E outcome \in {"ok", "raise"} : ConfigureSocket(w, outcome)
    \/ \E outcome \in {"full", "short", "raise"} : SendAttempt(w, outcome)
    \/ FinishPort(w)
    \/ NextPort(w)
    \/ SendReturn(w)
    \/ RunTaskReport(w)
    \/ \E outcome \in ProbeOutcomes : Probe(w, outcome)
    \/ PingReport(w)

\* one user operation at a time, over every input
Next ==
    \/ \E d \in MacInputs, p \in PortInputs : on_run(1, d, p)
    \/ \E d \in MacInputs, p \in PortInputs : CallSend(1, d, p)
    \/ on_check(1)
    \/ Step(1)

Spec == Init /\ [][Next]_vars

\* the input of the operations that run side by side
ConcMac == [seed |-> 0, form |-> "colon", lower |-> FALSE, defect |-> "none"]

ConcPorts == { <<"9">> }

\* several user operations at once, interleaved at every call into the system
NextConc ==
    \E w \in Workers :
        \/ \E p \in ConcPorts : on_run(w, ConcMac, p)
        \/ on_check(w)
        \/ Step(w)

SpecConc == Init /\ [][NextConc]_vars

----------------------------------------------------------------------------
(* Vocabulary of the properties *)

\* the sendto calls of thread w that wrote the whole packet to port index idx
FullCount(w, idx) ==
    Cardinality({k \in 1..Len(net[w].full) : net[w].full[k] = idx})

\* the sendto calls of thread w for port index idx
CallCount(w, idx) ==
    Cardinality({k \in 1..Len(net[w].calls) : net[w].calls[k].idx = idx})

\* the ports thread w called sendto with
SentTo(w) == {net[w].calls[k].port : k \in 1..Len(net[w].calls)}

IsSendOp(w) == req[w].op \in {"run_task", "send"}

\* send_magic_packet_advanced passed its validation
Validated(w) == IsSendOp(w) /\ th[w].port_idx >= 1

\* send_magic_packet_advanced returned its pair
SendReturned(w) ==
    /\ Validated(w)
    /\ th[w].pc \in {"report", "done"}
    /\ th[w].port_idx > Len(th[w].ports)

InLoop(w) == th[w].pc \in {"for_port", "setup", "send", "next_port"}

\* the port field as typed: blank, a number, or neither
BlankPortInputs == { <<>>, <<" ">> }

NonNumericPortInputs == { <<"9", "x">>, <<"7", ",", "9">>, <<"x">> }

NumericPortValue(p) ==
    CASE p = <<"7">> -> 7
      [] p = <<" ", "9", " ">> -> 9
      [] p = <<"+", "9">> -> 9
      [] p = <<"0">> -> 0
      [] p = <<"-", "1">> -> 0 - 1
      [] p = <<"6", "5", "5", "3", "5">> -> 65535
      [] p = <<"6", "5", "5", "3", "6">> -> 65536

ExpectedPortSet(p) == IF p \in BlankPortInputs THEN {7, 9} ELSE {NumericPortValue(p)}

\* the address handed to the send operation does not come down to 12
\* hexadecimal characters once ':' and '-' are removed (_run_task strips
\* surrounding blanks before the call, a direct call does not)
MalformedMac(w) ==
    LET d == req[w].src[1]
    IN  \/ d.defect \in {"short", "long", "badchar", "empty"}
        \/ d.defect = "padded" /\ req[w].op = "send"

\* the canonical form: upper case, colon separated
Canonical(seed) == RenderMac(SampleMac(seed), "colon", FALSE)

----------------------------------------------------------------------------
(* Properties *)

\* C1: when send_magic_packet_advanced returns, its flag is true iff some port
\* had a sendto that wrote the whole packet; _run_task reports success on a
\* true flag and raises RuntimeError ("Transmission failed on all ports"),
\* reported as a failure, on a false one.
C1_AggregateSuccess ==
    \A w \in Workers :
        SendReturned(w) =>
            /\ (th[w].ret_success <=> \E idx \in 1..Len(th[w].ports) : FullCount(w, idx) > 0)
            /\ (req[w].op = "run_task" /\ th[w].pc = "done") =>
                   IF th[w].ret_success
                   THEN th[w].report = "success" /\ th[w].raised = ""
                   ELSE th[w].report = "failed" /\ th[w].raised = "RuntimeError"

\* both default ports had three sends, none wrote the whole packet, and the
\* failure was reported
C1_Witness ==
    \E w \in Workers :
        /\ SendReturned(w) /\ req[w].op = "run_task" /\ th[w].pc = "done"
        /\ th[w].ports = DEFAULT_PORTS
        /\ Len(net[w].calls) = 6 /\ net[w].full = <<>>
        /\ ~th[w].ret_success /\ th[w].report = "failed"

\* C2: the wake-check poll issues at most 10 probes and none after a probe
\* that succeeded; it ends after the first success (reachable) or after exactly
\* 10 failures (unreachable), and reports exactly that one outcome.
C2_BoundedPoll ==
    \A w \in Workers :
        req[w].op = "check" =>
            LET P   == net[w].probes
                hit == \E k \in 1..Len(P) : P[k]
            IN  /\ Len(P) <= MaxAttempts
                /\ \A k \in 1..Len(P) : P[k] => k = Len(P)
                /\ th[w].pc = "ping" => ~hit /\ Len(P) < MaxAttempts /\ th[w].report = ""
                /\ th[w].pc = "ping_report" => (hit \/ Len(P) = MaxAttempts) /\ th[w].report = ""
                /\ th[w].pc = "done" =>
                       /\ hit \/ Len(P) = MaxAttempts
                       /\ th[w].report = IF hit THEN "reachable" ELSE "unreachable"

\* the tenth probe is the first to succeed and the poll reports reachable
C2_Witness ==
    \E w \in Workers :
        /\ req[w].op = "check" /\ th[w].pc = "done"
        /\ Len(net[w].probes) = MaxAttempts /\ net[w].probes[MaxAttempts]
        /\ th[w].report = "reachable"

\* C3: with a malformed address or a port specification that is neither blank
\* nor a number, the send operation opens no socket and calls sendto never, and
\* it ends in an error.
C3_FailFast ==
    \A w \in Workers :
        (IsSendOp(w) /\ (MalformedMac(w) \/ req[w].var_port \in NonNumericPortInputs)) =>
            /\ net[w].opened = <<>> /\ net[w].calls = <<>> /\ net[w].socks = {}
            /\ ~InLoop(w)
            /\ th[w].pc = "done" =>
                   /\ th[w].raised \in {"InvalidMacFormat", "InvalidPort", "InvalidAddress"}
                   /\ ~th[w].ret_success /\ th[w].report # "success"

\* a direct call with an address one character short ended in the address error
C3_Witness ==
    \E w \in Workers :
        /\ req[w].op = "send" /\ th[w].pc = "done"
        /\ req[w].src[1].defect = "short"
        /\ req[w].var_port \in BlankPortInputs
        /\ th[w].raised = "InvalidAddress"
        /\ net[w].opened = <<>>

\* C4: normalize_mac takes every valid address, written with colons, with
\* hyphens or with no separators, in either letter case, to the canonical upper
\* case colon separated form (a canonical address to itself).
C4_NormalizeAnyForm ==
    \A w \in Workers :
        (/\ req[w].op = "run_task"
         /\ th[w].pc # "normalize"
         /\ req[w].src[1].defect = "none"
         /\ req[w].src[1].form \in {"colon", "hyphen", "none"}) =>
            /\ th[w].raised # "InvalidMacFormat"
            /\ th[w].mac = Canonical(req[w].src[1].seed)

\* C5: the magic packet of a valid address is 102 bytes, bytes 0..5 are 0xFF,
\* byte 6+6*i+j is octet j of the address for i in 0..15 and j in 0..5, and
\* every sendto call on every port is given that packet.
C5_PacketLayout ==
    \A w \in Workers :
        Validated(w) =>
            LET pkt == th[w].magic_packet
                oct == SampleMac(req[w].src[1].seed)
            IN  /\ Len(pkt) = 102
                /\ \A k \in 1..6 : pkt[k] = 255
                /\ \A i \in 0..15 : \A j \in 0..5 : pkt[6 + 6 * i + j + 1] = oct[j + 1]
                /\ \A k \in 1..Len(net[w].calls) : net[w].calls[k].data = pkt

\* a lower case hyphenated address went out three times to each default port
C5_Witness ==
    \E w \in Workers :
        /\ Validated(w)
        /\ req[w].src[1].form = "hyphen" /\ req[w].src[1].lower
        /\ Len(net[w].calls) = 6
        /\ net[w].calls[1].port = 7 /\ net[w].calls[6].port = 9

\* C6: the ports of a send are {7, 9} for a blank port specification and the
\* one supplied port for a number; sendto is never called with another port,
\* and is called with each of them when no socket raised.
C6_PortSet ==
    \A w \in Workers :
        IsSendOp(w) =>
            IF req[w].var_port \in NonNumericPortInputs
            THEN SentTo(w) = {}
            ELSE LET expected == ExpectedPortSet(req[w].var_port)
                 IN  /\ SentTo(w) \subseteq expected
                     /\ Validated(w) => Range(th[w].ports) = expected
                     /\ (SendReturned(w) /\ net[w].sock_errors = <<>>) => SentTo(w) = expected

\* a blank port field: the send returned after sendto calls to 7 and to 9
C6_Witness ==
    \E w \in Workers :
        /\ SendReturned(w)
        /\ req[w].var_port = <<" ">>
        /\ SentTo(w) = {7, 9}

\* C7 as stated: every port whose socket was opened gets exactly 3 sendto calls.
C7_ThreePerOpenedSocket ==
    \A w \in Workers :
        \A k \in 1..Len(th[w].results) :
            (\E n \in 1..Len(net[w].opened) : net[w].opened[n] = k) =>
                CallCount(w, k) = SendsPerPort

\* C7 amended: every port whose socket was opened and configured without an
\* exception gets exactly 3 sendto calls whatever each one did, a port whose
\* socket raised gets none and an error entry; the ports are taken in the
\* supplied order whatever happened before, the calls of a port all precede
\* those of the next, and the results hold one entry per port in that order,
\* with the count of the calls that wrote the whole packet.
C7_AttemptsAndOrder ==
    \A w \in Workers :
        Validated(w) =>
            LET C     == net[w].calls
                R     == th[w].results
                ports == th[w].ports
                errs  == Range(net[w].sock_errors)
            IN  /\ \A k \in 1..Len(C) : \A l \in k..Len(C) : C[k].idx <= C[l].idx
                /\ \A k \in 1..Len(C) :
                       C[k].idx \in 1..Len(ports) /\ C[k].port = ports[C[k].idx]
                /\ Len(R) <= Len(ports)
                /\ SendReturned(w) => Len(R) = Len(ports)
                /\ \A k \in 1..Len(R) :
                       /\ R[k].port = ports[k]
                       /\ (R[k].kind = "error") <=> (k \in errs)
                       /\ CallCount(w, k) = IF k \in errs THEN 0 ELSE SendsPerPort
                       /\ R[k].sent = FullCount(w, k)

\* the first port's socket was opened but its configuration raised; the second
\* port still got its three calls, all failed, and both have their entry
C7_Witness ==
    \E w \in Workers :
        /\ SendReturned(w)
        /\ th[w].ports = DEFAULT_PORTS
        /\ net[w].opened = <<1, 2>> /\ net[w].sock_errors = <<1>>
        /\ th[w].results[1].kind = "error"
        /\ th[w].results[2].kind = "failed"
        /\ CallCount(w, 2) = SendsPerPort

\* C8: a send has at most one socket open, only while it configures the socket
\* of the current port or sends to it; the socket is closed when the port is
\* left, however it is left, and none is open between ports or after the
\* return.
C8_SocketScoped ==
    \A w \in Workers :
        /\ Cardinality(net[w].socks) <= 1
        /\ th[w].pc \in {"setup", "send"} => net[w].socks = {th[w].port_idx}
        /\ th[w].pc \notin {"setup", "send"} => net[w].socks = {}

\* two sockets were opened one after the other, the first was closed by a
\* configuration error, and none is open after the return
C8_Witness ==
    \E w \in Workers :
        /\ SendReturned(w) /\ th[w].pc = "done"
        /\ net[w].opened = <<1, 2>> /\ net[w].sock_errors = <<1>>
        /\ Len(net[w].calls) = SendsPerPort
        /\ net[w].socks = {}

\* C9: every port the per-port loop works on is in the UDP port range 1..65535.
C9_PortsInUdpRange ==
    \A w \in Workers :
        InLoop(w) =>
            \A k \in 1..Len(th[w].ports) : th[w].ports[k] >= 1 /\ th[w].ports[k] <= 65535

\* C10: under every interleaving of the threads, the counters, the socket, the
\* result list and the outcome of a thread are those its own sendto and
\* ping_once results give when it runs alone.
C10_NoInterference ==
    \A w \in Workers :
        /\ req[w].op = "run_task" =>
               LET R == th[w].results
               IN  /\ net[w].socks \subseteq {th[w].port_idx}
                   /\ th[w].pc = "send" =>
                          /\ th[w].sent_count = FullCount(w, th[w].port_idx)
                          /\ th[w].i = CallCount(w, th[w].port_idx)
                   /\ InLoop(w) =>
                          th[w].success_count =
                              Cardinality({k \in 1..Len(R) : FullCount(w, k) > 0})
                   /\ \A k \in 1..Len(R) :
                          /\ R[k].port = th[w].ports[k]
                          /\ R[k].sent = FullCount(w, k)
                          /\ R[k].kind =
                                 IF \E n \in 1..Len(net[w].sock_errors) : net[w].sock_errors[n] = k
                                 THEN "error"
                                 ELSE IF FullCount(w, k) > 0 THEN "success" ELSE "failed"
                   /\ th[w].pc = "done" =>
                          /\ Len(R) = Len(th[w].ports)
                          /\ th[w].ret_success <=> (\E k \in 1..Len(R) : FullCount(w, k) > 0)
                          /\ th[w].report = IF th[w].ret_success THEN "success" ELSE "failed"
        /\ req[w].op = "check" =>
               LET P   == net[w].probes
                   hit == \E k \in 1..Len(P) : P[k]
               IN  /\ th[w].ok <=> hit
                   /\ th[w].i = Cardinality({k \in 1..Len(P) : ~P[k]})
                   /\ th[w].pc = "done" =>
                          /\ th[w].report = IF hit THEN "reachable" ELSE "unreachable"
                          /\ hit \/ Len(P) = MaxAttempts

\* two sends in flight at once, each with its socket open: one has written
\* the whole packet three times, the other not once
C10_Witness ==
    /\ th[1].pc = "send" /\ th[1].i = SendsPerPort /\ th[1].sent_count = SendsPerPort
    /\ th[2].pc = "send" /\ th[2].i = SendsPerPort /\ th[2].sent_count = 0
    /\ net[1].socks # {} /\ net[2].socks # {}

====
